---- MODULE Spec2Model ----
(***************************************************************************)
(* A model of pydbs-analytic: script/database.py (DBInterface over two     *)
(* attached SQLite files), script/misc.py (the data generators) and the    *)
(* driver in main.py.                                                      *)
(*                                                                         *)
(* disk is what the two database files hold (committed); db is what the    *)
(* open connection sees (committed rows plus the rows of its pending       *)
(* transaction); inTx is sqlite3's Connection.in_transaction.  Row ids are *)
(* INTEGER PRIMARY KEY values; rows are only ever appended, so the row     *)
(* with id i is the i-th element of the table's sequence.  Text is a       *)
(* sequence of one-character strings where the code inspects characters    *)
(* (logins, e-mails, the username put between double quotes in a query);   *)
(* a timestamp is the calendar day relative to the day of the run.         *)
(***************************************************************************)
EXTENDS Integers, Sequences, FiniteSets, TLC

VARIABLES disk, db, inTx, pc, is_faker, login, actions_count, iter, stdout,
          lastOp, raised, ret

vars == <<disk, db, inTx, pc, is_faker, login, actions_count, iter, stdout,
          lastOp, raised, ret>>

(* ------------------------------ bounds -------------------------------- *)
\* rows a table may hold
MaxUsers == 2
MaxBlogs == 1
MaxPosts == 2
MaxComments == 1
MaxLogs == 2
\* rows with room for a second comment (SpecContent)
DeepPosts == 2
DeepComments == 2
DeepLogs == 3
\* log rows the files may hold in SpecActions
LoopLogs == 4
\* the largest count a fill is called with
MaxCount == 2
\* the furthest day from today a generated date lies
MaxDay == 1

(* ------------------------- text and generators ------------------------ *)
UpperCase == <<"A","B","C","D","E","F","G","H","I","J","K","L","M",
               "N","O","P","Q","R","S","T","U","V","W","X","Y","Z">>
LowerCase == <<"a","b","c","d","e","f","g","h","i","j","k","l","m",
               "n","o","p","q","r","s","t","u","v","w","x","y","z">>

\* str.lower(), one character
lower_char(c) ==
    IF \E i \in 1..Len(UpperCase) : UpperCase[i] = c
    THEN LowerCase[CHOOSE i \in 1..Len(UpperCase) : UpperCase[i] = c]
    ELSE c

\* str.lower()
lower(s) == [i \in 1..Len(s) |-> lower_char(s[i])]

\* str.replace(old, new) for one-character old and new
replace(s, old, new) == [i \in 1..Len(s) |-> IF s[i] = old THEN new ELSE s[i]]

ExampleCom == <<"@","e","x","a","m","p","l","e",".","c","o","m">>

\* the e-mail fill_users derives from a login
make_email(name) == replace(lower(name), " ", "_") \o ExampleCom

\* get_name() without faker
UserName == <<"U","s","e","r"," ","N","a","m","e">>
\* names faker.Faker().name() may return
FakerNames == { <<"A","l"," ","B","o">>, <<"E","d"," ","Y","u">> }

\* the values get_name() may return
get_name(faker) == IF faker THEN FakerNames ELSE {UserName}

\* get_sentence() / get_description(): opaque generated text
get_sentence == "Random sentence"
get_description == "Random description"

Now == 0
\* the calendar days get_random_date(starts, ends) may return: any day of the
\* range with faker (kept within MaxDay days of today), today without it
get_random_date(faker, starts, ends) ==
    IF faker THEN {d \in starts..ends : d >= -MaxDay /\ d <= MaxDay} ELSE {Now}

(* ------------------------------ storage ------------------------------- *)
EmptyStore ==
    [tables |-> {}, users |-> <<>>, blog |-> <<>>, post |-> <<>>,
     comment |-> <<>>, event_type |-> <<>>, space_type |-> <<>>, logs |-> <<>>]

\* what a method call leaves behind: the files, the connection's view, the
\* transaction flag, the exception it raised ("none" if it returned) and
\* the value it returned
Outcome(dk, d, tx, exc, val) ==
    [disk |-> dk, db |-> d, tx |-> tx, exc |-> exc, val |-> val]

\* cursor.execute of one INSERT ... VALUES rows: the statement is prepared
\* first (no such table, or an empty VALUES list: OperationalError, nothing
\* begun), then the implicit BEGIN, then the rows are appended
ExecInsert(d, table, rows) ==
    IF table \notin d.tables \/ rows = <<>>
    THEN [db |-> d, begun |-> FALSE, exc |-> "OperationalError"]
    ELSE [db |-> [d EXCEPT ![table] = @ \o rows], begun |-> TRUE, exc |-> "none"]

\* DBInterface.commit
commit(st) == { Outcome(st.db, st.db, FALSE, "none", <<>>) }

(* --------------------------- create_tables ---------------------------- *)
\* mutant: logout is seeded second, so that it gets id 2
EventTypeNames_logout_second ==
    <<"login", "logout", "comment", "create_post", "delete_post">>

EventTypeNames == <<"login", "comment", "create_post", "delete_post", "logout">>
SpaceTypeNames == <<"global", "blog", "post">>

\* the statements of the script, in order
SchemaScript ==
    << [kind |-> "create", table |-> "users"],
       [kind |-> "create", table |-> "blog"],
       [kind |-> "create", table |-> "post"],
       [kind |-> "create", table |-> "comment"],
       [kind |-> "create", table |-> "event_type"],
       [kind |-> "create", table |-> "space_type"],
       [kind |-> "create", table |-> "logs"],
       [kind |-> "insert", table |-> "event_type", rows |-> EventTypeNames],
       [kind |-> "insert", table |-> "space_type", rows |-> SpaceTypeNames] >>

\* mutant: CREATE TABLE IF NOT EXISTS, no error for a table that exists
ExecStatement_if_not_exists(d, stmt) ==
    IF stmt.kind = "create"
    THEN [db |-> [d EXCEPT !.tables = @ \cup {stmt.table}], exc |-> "none"]
    ELSE IF stmt.table \notin d.tables
         THEN [db |-> d, exc |-> "OperationalError"]
         ELSE [db |-> [d EXCEPT ![stmt.table] = @ \o stmt.rows], exc |-> "none"]

\* one statement of a script, run in autocommit mode on store d
ExecStatement(d, stmt) ==
    IF stmt.kind = "create"
    THEN IF stmt.table \in d.tables
         THEN [db |-> d, exc |-> "OperationalError"]
         ELSE [db |-> [d EXCEPT !.tables = @ \cup {stmt.table}], exc |-> "none"]
    ELSE IF stmt.table \notin d.tables
         THEN [db |-> d, exc |-> "OperationalError"]
         ELSE [db |-> [d EXCEPT ![stmt.table] = @ \o stmt.rows], exc |-> "none"]

RECURSIVE RunScript(_, _, _)
\* statements i.. of the script, stopping at the first that fails; what the
\* earlier statements did stays
RunScript(d, script, i) ==
    IF i > Len(script) THEN [db |-> d, exc |-> "none"]
    ELSE LET r == ExecStatement(d, script[i])
         IN IF r.exc # "none" THEN r ELSE RunScript(r.db, script, i + 1)

\* Connection.executescript: commits a pending transaction, then runs the
\* statements with no transaction open, so each is stored as it completes
executescript(st, script) ==
    LET r == RunScript(st.db, script, 1)
    IN Outcome(r.db, r.db, FALSE, r.exc, <<>>)

\* DBInterface.create_tables
create_tables(st) == { executescript(st, SchemaScript) }

(* ------------------------------- fills -------------------------------- *)
\* mutant: the ids run one past the last row
get_all_ids_off_by_one(d, table) == [i \in 1..Len(d[table]) + 1 |-> i]

\* DBInterface.__get_all_ids__
get_all_ids(d, table) == [i \in 1..Len(d[table]) |-> i]

\* random.choice(seq): the values it may return (none: IndexError)
random_choice(seq) == {seq[i] : i \in 1..Len(seq)}

\* a method that raised exc before it changed anything
Failed(st, exc) == Outcome(st.disk, st.db, st.tx, exc, <<>>)

\* mutant: the connection stores every INSERT at once (isolation_level=None)
fill_users_autocommit(st, faker, count) ==
    { LET emails == [i \in 1..count |-> make_email(logins[i])]
          values == [i \in 1..count |-> [email |-> emails[i], login |-> logins[i]]]
          r == ExecInsert(st.db, "users", values)
      IN Outcome(r.db, r.db, FALSE, r.exc, <<>>)
      : logins \in [1..count -> get_name(faker)] }

\* DBInterface.fill_users
fill_users(st, faker, count) ==
    { LET emails == [i \in 1..count |-> make_email(logins[i])]
          values == [i \in 1..count |-> [email |-> emails[i], login |-> logins[i]]]
          r == ExecInsert(st.db, "users", values)
      IN Outcome(st.disk, r.db, st.tx \/ r.begun, r.exc, <<>>)
      : logins \in [1..count -> get_name(faker)] }

\* DBInterface.fill_blogs
fill_blogs(st, faker, count) ==
    IF "users" \notin st.db.tables THEN { Failed(st, "OperationalError") }
    ELSE LET user_ids == get_all_ids(st.db, "users")
         IN IF count > 0 /\ user_ids = <<>> THEN { Failed(st, "IndexError") }
            ELSE { LET values == [i \in 1..count |->
                                    [owner_id |-> owners[i], name |-> get_sentence,
                                     description |-> get_description]]
                       r == ExecInsert(st.db, "blog", values)
                   IN Outcome(st.disk, r.db, st.tx \/ r.begun, r.exc, <<>>)
                   : owners \in [1..count -> random_choice(user_ids)] }

RECURSIVE Flatten(_)
\* the concatenation of a sequence of sequences
Flatten(ss) == IF ss = <<>> THEN <<>> ELSE Head(ss) \o Flatten(Tail(ss))

LogRow_global(day, user_id, space_type_id, event_type_id) ==
    [datetime |-> day, user_id |-> user_id, space_type_id |-> 1,
     event_type_id |-> event_type_id]

LogRow(day, user_id, space_type_id, event_type_id) ==
    [datetime |-> day, user_id |-> user_id,
     space_type_id |-> space_type_id, event_type_id |-> event_type_id]

\* what one iteration of fill_posts' loop may draw
PostDraws(faker, user_ids, blog_ids) ==
    [user_id : random_choice(user_ids), blog_id : random_choice(blog_ids),
     created : get_random_date(faker, -2, 0),
     remove : {randint = 1 : randint \in 0..3},
     deleted : get_random_date(faker, 1, 4)]

\* mutant: the delete_post row is given the blog's id as its user
PostLogRows_delete_by_blog(dr) ==
    <<LogRow(dr.created, dr.user_id, 2, 3)>>
    \o (IF dr.remove THEN <<LogRow(dr.deleted, dr.blog_id, 2, 4)>> ELSE <<>>)

\* the log rows one iteration of fill_posts' loop appends
PostLogRows(dr) ==
    <<LogRow(dr.created, dr.user_id, 2, 3)>>
    \o (IF dr.remove THEN <<LogRow(dr.deleted, dr.user_id, 2, 4)>> ELSE <<>>)

\* DBInterface.fill_posts
fill_posts(st, faker, count) ==
    IF "users" \notin st.db.tables \/ "blog" \notin st.db.tables
    THEN { Failed(st, "OperationalError") }
    ELSE LET user_ids == get_all_ids(st.db, "users")
             blog_ids == get_all_ids(st.db, "blog")
         IN IF count > 0 /\ (user_ids = <<>> \/ blog_ids = <<>>)
            THEN { Failed(st, "IndexError") }
            ELSE { LET values_main == [i \in 1..count |->
                                        [header |-> get_sentence, text |-> get_description,
                                         author_id |-> draws[i].user_id,
                                         blog_id |-> draws[i].blog_id]]
                       values_logging == Flatten([i \in 1..count |-> PostLogRows(draws[i])])
                       r1 == ExecInsert(st.db, "post", values_main)
                       r2 == ExecInsert(r1.db, "logs", values_logging)
                   IN IF r1.exc # "none"
                      THEN Outcome(st.disk, r1.db, st.tx \/ r1.begun, r1.exc, <<>>)
                      ELSE Outcome(st.disk, r2.db, st.tx \/ r1.begun \/ r2.begun, r2.exc, <<>>)
                   : draws \in [1..count -> PostDraws(faker, user_ids, blog_ids)] }

\* what one iteration of fill_comments' loop may draw
CommentDraws(faker, user_ids, post_ids) ==
    [user_id : random_choice(user_ids), post_id : random_choice(post_ids),
     day : get_random_date(faker, 0, 1), log_user_id : random_choice(user_ids)]

\* DBInterface.fill_comments
fill_comments(st, faker, count) ==
    IF "users" \notin st.db.tables \/ "post" \notin st.db.tables
    THEN { Failed(st, "OperationalError") }
    ELSE LET user_ids == get_all_ids(st.db, "users")
             post_ids == get_all_ids(st.db, "post")
         IN IF count > 0 /\ (user_ids = <<>> \/ post_ids = <<>>)
            THEN { Failed(st, "IndexError") }
            ELSE { LET values_main == [i \in 1..count |->
                                        [text |-> get_description,
                                         author_id |-> draws[i].user_id,
                                         post_id |-> draws[i].post_id]]
                       values_logging == [i \in 1..count |->
                                           LogRow(draws[i].day, draws[i].log_user_id, 3, 2)]
                       r1 == ExecInsert(st.db, "comment", values_main)
                       r2 == ExecInsert(r1.db, "logs", values_logging)
                   IN IF r1.exc # "none"
                      THEN Outcome(st.disk, r1.db, st.tx \/ r1.begun, r1.exc, <<>>)
                      ELSE Outcome(st.disk, r2.db, st.tx \/ r1.begun \/ r2.begun, r2.exc, <<>>)
                   : draws \in [1..count -> CommentDraws(faker, user_ids, post_ids)] }

\* mutant: one row per call, for a user picked at random
fill_logs_login_logout_one_row(st, faker, is_login) ==
    IF "users" \notin st.db.tables THEN { Failed(st, "OperationalError") }
    ELSE LET user_ids == get_all_ids(st.db, "users")
             date_range == IF is_login THEN <<-5, 0>> ELSE <<0, 5>>
             state == IF is_login THEN 1 ELSE 5
         IN IF user_ids = <<>> THEN { Failed(st, "OperationalError") }
            ELSE { LET r == ExecInsert(st.db, "logs", <<LogRow(day, user_id, 1, state)>>)
                   IN Outcome(st.disk, r.db, st.tx \/ r.begun, r.exc, <<>>)
                   : day \in get_random_date(faker, date_range[1], date_range[2]),
                     user_id \in random_choice(user_ids) }

\* DBInterface.fill_logs_login_logout
fill_logs_login_logout(st, faker, is_login) ==
    IF "users" \notin st.db.tables THEN { Failed(st, "OperationalError") }
    ELSE LET user_ids == get_all_ids(st.db, "users")
             date_range == IF is_login THEN <<-5, 0>> ELSE <<0, 5>>
             state == IF is_login THEN 1 ELSE 5
         IN { LET values == [i \in 1..Len(user_ids) |->
                               LogRow(days[i], user_ids[i], 1, state)]
                  r == ExecInsert(st.db, "logs", values)
              IN Outcome(st.disk, r.db, st.tx \/ r.begun, r.exc, <<>>)
              : days \in [1..Len(user_ids) ->
                            get_random_date(faker, date_range[1], date_range[2])] }

(* ------------------------------ reports ------------------------------- *)
c_id == <<"i","d">>
c_email == <<"e","m","a","i","l">>
c_login == <<"l","o","g","i","n">>
c_header == <<"h","e","a","d","e","r">>
c_text == <<"t","e","x","t">>
c_author_id == <<"a","u","t","h","o","r","_","i","d">>
c_post_id == <<"p","o","s","t","_","i","d">>
c_blog_id == <<"b","l","o","g","_","i","d">>
c_datetime == <<"d","a","t","e","t","i","m","e">>
c_user_id == <<"u","s","e","r","_","i","d">>
c_space_type_id == <<"s","p","a","c","e","_","t","y","p","e","_","i","d">>
c_event_type_id == <<"e","v","e","n","t","_","t","y","p","e","_","i","d">>

Col(alias, name, field) == [alias |-> alias, name |-> name, field |-> field]

\* the columns of the tables of each FROM clause, by alias
UsrColumns == << Col("usr", c_id, "id"), Col("usr", c_email, "email"),
                 Col("usr", c_login, "login") >>
CmtColumns == << Col("cmt", c_id, "id"), Col("cmt", c_text, "text"),
                 Col("cmt", c_author_id, "author_id"), Col("cmt", c_post_id, "post_id") >>
PstColumns == << Col("pst", c_id, "id"), Col("pst", c_header, "header"),
                 Col("pst", c_text, "text"), Col("pst", c_author_id, "author_id"),
                 Col("pst", c_blog_id, "blog_id") >>
LgsColumns == << Col("lgs", c_id, "id"), Col("lgs", c_datetime, "datetime"),
                 Col("lgs", c_user_id, "user_id"),
                 Col("lgs", c_space_type_id, "space_type_id"),
                 Col("lgs", c_event_type_id, "event_type_id") >>

\* the columns of a scope that a double-quoted token names (identifiers
\* are matched without regard to case)
Named(scope, token) ==
    SelectSeq(scope, LAMBDA c : c.name = lower(token))

\* how SQLite reads "token" in an expression: a column of the innermost
\* scope that has one of that name (an error if it has several), else of the
\* enclosing scope, and a string literal when no column has the name.  A
\* token with a double quote in it ends the string early: a syntax error.
\* (A doubled quote, which SQL reads as one quote character, is not among
\* the modelled usernames.)
ResolveQuoted(token, inner, outer) ==
    IF \E i \in 1..Len(token) : token[i] = "\""
    THEN [kind |-> "error"]
    ELSE LET ni == Named(inner, token)
             no == Named(outer, token)
         IN IF Len(ni) > 1 THEN [kind |-> "error"]
            ELSE IF Len(ni) = 1 THEN [kind |-> "column", col |-> ni[1]]
            ELSE IF Len(no) > 1 THEN [kind |-> "error"]
            ELSE IF Len(no) = 1 THEN [kind |-> "column", col |-> no[1]]
            ELSE [kind |-> "literal"]

\* usr.login == <the resolved token>, for users row u (id uid) and the rows
\* the other aliases stand for.  Only a login or an e-mail can equal a
\* login: ids are integers, dates are dates, and generated sentences are
\* not names.
LoginEquals(r, token, u) ==
    IF r.kind = "literal" THEN u.login = token
    ELSE IF r.col.alias = "usr" /\ r.col.field = "login" THEN TRUE
    ELSE IF r.col.alias = "usr" /\ r.col.field = "email" THEN u.login = u.email
    ELSE FALSE

\* the ids of the rows of a table of n rows, in the order a scan visits them
RowIds(n) == [i \in 1..n |-> i]

Null == "NULL"

\* mutant: the count subquery counts the comments of the row's author only
get_user_comments_info_own_count(st, username) ==
    LET d == st.db
        r == ResolveQuoted(username, CmtColumns \o UsrColumns \o PstColumns, <<>>)
    IN IF ~({"comment", "users", "post"} \subseteq d.tables) \/ r.kind = "error"
       THEN { Failed(st, "OperationalError") }
       ELSE LET Joined(c) ==
                    /\ d.comment[c].author_id \in 1..Len(d.users)
                    /\ d.comment[c].post_id \in 1..Len(d.post)
                    /\ LoginEquals(r, username, d.users[d.comment[c].author_id])
                cmts == SelectSeq(RowIds(Len(d.comment)), Joined)
                Author(p) == IF d.post[p].author_id \in 1..Len(d.users)
                             THEN d.users[d.post[p].author_id].login ELSE Null
                Count(c) == Cardinality({k \in 1..Len(d.comment) :
                                            /\ d.comment[k].post_id = d.comment[c].post_id
                                            /\ d.comment[k].author_id = d.comment[c].author_id})
                Row(c) == LET p == d.comment[c].post_id
                          IN << d.users[d.comment[c].author_id].login,
                                d.post[p].header, Author(p), Count(c) >>
            IN { Outcome(st.disk, st.db, st.tx, "none",
                         [i \in 1..Len(cmts) |-> Row(cmts[i])]) }

\* DBInterface.get_user_comments_info
get_user_comments_info(st, username) ==
    LET d == st.db
        r == ResolveQuoted(username, CmtColumns \o UsrColumns \o PstColumns, <<>>)
    IN IF ~({"comment", "users", "post"} \subseteq d.tables) \/ r.kind = "error"
       THEN { Failed(st, "OperationalError") }
       ELSE LET Joined(c) ==
                    /\ d.comment[c].author_id \in 1..Len(d.users)
                    /\ d.comment[c].post_id \in 1..Len(d.post)
                    /\ LoginEquals(r, username, d.users[d.comment[c].author_id])
                cmts == SelectSeq(RowIds(Len(d.comment)), Joined)
                Author(p) == IF d.post[p].author_id \in 1..Len(d.users)
                             THEN d.users[d.post[p].author_id].login ELSE Null
                Count(p) == Cardinality({k \in 1..Len(d.comment) :
                                            d.comment[k].post_id = p})
                Row(c) == LET p == d.comment[c].post_id
                          IN << d.users[d.comment[c].author_id].login,
                                d.post[p].header, Author(p), Count(p) >>
            IN { Outcome(st.disk, st.db, st.tx, "none",
                         [i \in 1..Len(cmts) |-> Row(cmts[i])]) }

RECURSIVE SortedSeq(_)
\* the elements of a finite set of integers in ascending order
SortedSeq(S) ==
    IF S = {} THEN <<>>
    ELSE LET m == CHOOSE x \in S : \A y \in S : x <= y
         IN <<m>> \o SortedSeq(S \ {m})

\* mutant: Logouts counts event type 4 (delete_post), not 5
get_user_actions_info_logout4(st, username) ==
    LET d == st.db
        r == ResolveQuoted(username, UsrColumns, LgsColumns)
    IN IF ~({"logs", "users"} \subseteq d.tables) \/ r.kind = "error"
       THEN { Failed(st, "OperationalError") }
       ELSE LET Matches(u) == LoginEquals(r, username, d.users[u])
                found == SelectSeq(RowIds(Len(d.users)), Matches)
                mine == IF found = <<>> THEN {}
                        ELSE {k \in 1..Len(d.logs) : d.logs[k].user_id = found[1]}
                dates == SortedSeq({d.logs[k].datetime : k \in mine})
                On(day) == {k \in mine : d.logs[k].datetime = day}
                Row(day) ==
                    << day,
                       Cardinality({k \in On(day) : d.logs[k].event_type_id = 1}),
                       Cardinality({k \in On(day) : d.logs[k].event_type_id = 4}),
                       Cardinality({k \in On(day) : d.logs[k].space_type_id > 1}) >>
            IN { Outcome(st.disk, st.db, st.tx, "none",
                         [i \in 1..Len(dates) |-> Row(dates[i])]) }

\* DBInterface.get_user_actions_info
get_user_actions_info(st, username) ==
    LET d == st.db
        r == ResolveQuoted(username, UsrColumns, LgsColumns)
    IN IF ~({"logs", "users"} \subseteq d.tables) \/ r.kind = "error"
       THEN { Failed(st, "OperationalError") }
       ELSE LET Matches(u) == LoginEquals(r, username, d.users[u])
                found == SelectSeq(RowIds(Len(d.users)), Matches)
                \* SELECT usr.id ... LIMIT 1: the first match, or NULL
                mine == IF found = <<>> THEN {}
                        ELSE {k \in 1..Len(d.logs) : d.logs[k].user_id = found[1]}
                dates == SortedSeq({d.logs[k].datetime : k \in mine})
                On(day) == {k \in mine : d.logs[k].datetime = day}
                Row(day) ==
                    << day,
                       Cardinality({k \in On(day) : d.logs[k].event_type_id = 1}),
                       Cardinality({k \in On(day) : d.logs[k].event_type_id = 5}),
                       Cardinality({k \in On(day) : d.logs[k].space_type_id > 1}) >>
            IN { Outcome(st.disk, st.db, st.tx, "none",
                         [i \in 1..Len(dates) |-> Row(dates[i])]) }

\* DBInterface.disconnect: DETACH fails while a transaction is open
disconnect(st) ==
    IF st.tx THEN { Failed(st, "OperationalError") }
    ELSE { Outcome(st.disk, st.disk, FALSE, "none", <<>>) }

(* ----------------------- the process and its calls --------------------- *)
\* pc: "off" when no process runs; "api" while a client other than main.py
\* holds a connected DBInterface and is about to call one of its methods,
\* "api_ret" while it looks at what the call gave; else the statement of
\* main.py's __main__ block that runs next.
\* is_faker: misc.is_faker, whether the faker package is installed.
\* login: the username the queries are called with (args.login in main.py).
\* actions_count: args.actions_count as the actions loop of main.py read
\* it.  iter: the iterations the actions loop has left.  stdout: what
\* main.py printed.  lastOp, raised, ret: the last call made, the exception it
\* raised ("none" if it returned) and the value it returned.

Nobody == <<"N","o"," ","O","n","e">>
AQuote == <<"a","\"">>
\* the logins the queries are called with
Usernames == {UserName} \cup FakerNames \cup {Nobody, c_login, c_id, AQuote}

Op(name, count, is_login) == [op |-> name, count |-> count, is_login |-> is_login]

Session == [disk |-> disk, db |-> db, tx |-> inTx]

Caps == [users |-> MaxUsers, blog |-> MaxBlogs, post |-> MaxPosts,
         comment |-> MaxComments, logs |-> MaxLogs]
DeepCaps == [users |-> MaxUsers, blog |-> MaxBlogs, post |-> DeepPosts,
             comment |-> DeepComments, logs |-> DeepLogs]

WithinBounds(d, caps) ==
    \A t \in DOMAIN caps :
        Len(d[t]) <= (IF Len(db[t]) > caps[t] THEN Len(db[t]) ELSE caps[t])

\* the counts a fill of table t is called with
Counts(t, caps) == {n \in 0..MaxCount : Len(db[t]) + n <= caps[t]}

\* the call returned, or raised to a caller that goes on
Apply(o, op, next, caps) ==
    /\ WithinBounds(o.db, caps)
    /\ disk' = o.disk /\ db' = o.db /\ inTx' = o.tx
    /\ raised' = o.exc /\ ret' = o.val /\ lastOp' = op
    /\ pc' = next

\* the process ends: the connection goes with it and the pending
\* transaction is rolled back
Ended ==
    pc' = "off" /\ login' = <<>> /\ actions_count' = 0 /\ iter' = 0 /\ stdout' = ""

\* the call raised and nothing in main.py catches it
Die(o, op) ==
    /\ disk' = o.disk /\ db' = o.disk /\ inTx' = FALSE
    /\ raised' = o.exc /\ ret' = <<>> /\ lastOp' = op
    /\ Ended

\* a call made by main.py, which handles no exception of it
CallWithin(outcomes, op, next, caps) ==
    \E o \in outcomes :
        IF o.exc = "none"
        THEN Apply(o, op, next, caps) /\ UNCHANGED <<login, actions_count, iter, stdout>>
        ELSE Die(o, op)

Call(outcomes, op, next) == CallWithin(outcomes, op, next, Caps)

\* a statement of main.py whose condition is false
Skip(next) ==
    /\ pc' = next /\ lastOp' = Op("skip", 0, FALSE) /\ raised' = "none" /\ ret' = <<>>
    /\ UNCHANGED <<disk, db, inTx, login, actions_count, iter, stdout>>

\* both files empty, no process
Init ==
    /\ disk = EmptyStore /\ db = EmptyStore /\ inTx = FALSE
    /\ pc = "off" /\ is_faker \in BOOLEAN /\ login = <<>>
    /\ actions_count = 0 /\ iter = 0
    /\ stdout = "" /\ lastOp = Op("none", 0, FALSE) /\ raised = "none" /\ ret = <<>>

\* DBInterface.connect, as every process starts
connect(next) ==
    /\ pc = "off"
    /\ db' = disk /\ inTx' = FALSE /\ pc' = next
    /\ lastOp' = Op("connect", 0, FALSE) /\ raised' = "none" /\ ret' = <<>>
    /\ actions_count' = 0 /\ iter' = 0 /\ stdout' = ""
    /\ UNCHANGED <<disk, is_faker>>

(* main.py *)
\* parse_args, DBInterface(...), connect(), and the branch on args.login
\* and args.fill.  The counts of the fill flags are each read by one
\* statement only, so they are drawn where they are read.
MainStart ==
    \/ \E u \in Usernames : connect("report_comments") /\ login' = u
    \/ connect("create_tables") /\ login' = <<>>
    \/ connect("disconnect") /\ login' = <<>>

MainReportComments ==
    /\ pc = "report_comments"
    /\ Call(get_user_comments_info(Session, login),
            Op("get_user_comments_info", 0, FALSE), "report_actions")
    /\ UNCHANGED is_faker

\* the CSV files written next are outside the model
MainReportActions ==
    /\ pc = "report_actions"
    /\ Call(get_user_actions_info(Session, login),
            Op("get_user_actions_info", 0, FALSE), "disconnect")
    /\ UNCHANGED is_faker

MainCreateTables ==
    /\ pc = "create_tables"
    /\ \/ Skip("fill_users")
       \/ \E o \in create_tables(Session) :
            /\ o.exc \in {"none", "OperationalError"}
            /\ Apply(o, Op("create_tables", 0, FALSE), "fill_users", Caps)
            /\ stdout' = IF o.exc = "OperationalError"
                         THEN "Tables already exist" ELSE stdout
            /\ UNCHANGED <<login, actions_count, iter>>
    /\ UNCHANGED is_faker

MainFillUsers ==
    /\ pc = "fill_users"
    /\ \/ Skip("fill_blogs")
       \/ \E n \in Counts("users", Caps) \ {0} :
            Call(fill_users(Session, is_faker, n), Op("fill_users", n, FALSE), "fill_blogs")
    /\ UNCHANGED is_faker

MainFillBlogs ==
    /\ pc = "fill_blogs"
    /\ \/ Skip("fill_posts")
       \/ \E n \in Counts("blog", Caps) \ {0} :
            Call(fill_blogs(Session, is_faker, n), Op("fill_blogs", n, FALSE), "fill_posts")
    /\ UNCHANGED is_faker

MainFillPosts ==
    /\ pc = "fill_posts"
    /\ \/ Skip("fill_comments")
       \/ \E n \in Counts("post", Caps) \ {0} :
            Call(fill_posts(Session, is_faker, n), Op("fill_posts", n, FALSE),
                 "fill_comments")
    /\ UNCHANGED is_faker

MainFillComments ==
    /\ pc = "fill_comments"
    /\ \/ Skip("actions")
       \/ \E n \in Counts("comment", Caps) \ {0} :
            Call(fill_comments(Session, is_faker, n), Op("fill_comments", n, FALSE),
                 "actions")
    /\ UNCHANGED is_faker

\* if args.actions_count: for i in range(args.actions_count)
MainActions ==
    /\ pc = "actions"
    /\ \E n \in 0..MaxCount :
        /\ actions_count' = n /\ iter' = n
        /\ pc' = IF n = 0 THEN "commit" ELSE "login"
    /\ lastOp' = Op("skip", 0, FALSE) /\ raised' = "none" /\ ret' = <<>>
    /\ UNCHANGED <<disk, db, inTx, is_faker, login, stdout>>

\* db_interface.fill_logs_login_logout(True) in the loop
Login(caps) ==
    /\ pc = "login"
    /\ CallWithin(fill_logs_login_logout(Session, is_faker, TRUE),
                  Op("fill_logs_login_logout", 0, TRUE), "logout", caps)
    /\ UNCHANGED is_faker

\* db_interface.fill_logs_login_logout(False) in the loop, and the loop's
\* next iteration or its end
Logout(caps) ==
    /\ pc = "logout"
    /\ \E o \in fill_logs_login_logout(Session, is_faker, FALSE) :
        IF o.exc = "none"
        THEN /\ Apply(o, Op("fill_logs_login_logout", 0, FALSE),
                      IF iter = 1 THEN "commit" ELSE "login", caps)
             /\ iter' = iter - 1
             /\ UNCHANGED <<login, actions_count, stdout>>
        ELSE Die(o, Op("fill_logs_login_logout", 0, FALSE))
    /\ UNCHANGED is_faker

MainLogin == Login(Caps)
MainLogout == Logout(Caps)

MainCommit ==
    /\ pc = "commit"
    /\ Call(commit(Session), Op("commit", 0, FALSE), "disconnect")
    /\ UNCHANGED is_faker

MainDisconnect ==
    /\ pc = "disconnect"
    /\ \E o \in disconnect(Session) : Die(o, Op("disconnect", 0, FALSE))
    /\ UNCHANGED is_faker

\* the process is killed, or ends on its own, with the connection open
Kill ==
    /\ pc # "off"
    /\ Die(Outcome(disk, disk, FALSE, "none", <<>>), Op("kill", 0, FALSE))
    /\ UNCHANGED is_faker

(* a client of DBInterface other than main.py *)
ApiCall(outcomes, op, caps) ==
    /\ pc = "api"
    /\ \E o \in outcomes : Apply(o, op, "api_ret", caps)
    /\ UNCHANGED <<is_faker, actions_count, iter, stdout>>

ApiConnect == connect("api") /\ login' = <<>>

\* the client has seen what the call gave and goes on
ApiReturn ==
    /\ pc = "api_ret"
    /\ pc' = "api" /\ lastOp' = Op("none", 0, FALSE) /\ raised' = "none"
    /\ ret' = <<>> /\ login' = <<>>
    /\ UNCHANGED <<disk, db, inTx, is_faker, actions_count, iter, stdout>>

CreateTables(caps) ==
    ApiCall(create_tables(Session), Op("create_tables", 0, FALSE), caps)
    /\ UNCHANGED login

FillUsers(caps) ==
    \E n \in Counts("users", caps) :
        ApiCall(fill_users(Session, is_faker, n), Op("fill_users", n, FALSE), caps)
        /\ UNCHANGED login

FillBlogs(caps) ==
    \E n \in Counts("blog", caps) :
        ApiCall(fill_blogs(Session, is_faker, n), Op("fill_blogs", n, FALSE), caps)
        /\ UNCHANGED login

FillPosts(caps) ==
    \E n \in Counts("post", caps) :
        ApiCall(fill_posts(Session, is_faker, n), Op("fill_posts", n, FALSE), caps)
        /\ UNCHANGED login

FillComments(caps) ==
    \E n \in Counts("comment", caps) :
        ApiCall(fill_comments(Session, is_faker, n), Op("fill_comments", n, FALSE), caps)
        /\ UNCHANGED login

GetUserCommentsInfo(caps) ==
    \E u \in Usernames :
        ApiCall(get_user_comments_info(Session, u),
                Op("get_user_comments_info", 0, FALSE), caps)
        /\ login' = u

ApiCreateTables == CreateTables(Caps)
ApiFillUsers == FillUsers(Caps)
ApiFillBlogs == FillBlogs(Caps)
ApiFillPosts == FillPosts(Caps)
ApiFillComments == FillComments(Caps)
ApiGetUserCommentsInfo == GetUserCommentsInfo(Caps)

ApiFillLogs ==
    \E b \in BOOLEAN :
        ApiCall(fill_logs_login_logout(Session, is_faker, b),
                Op("fill_logs_login_logout", 0, b), Caps)
        /\ UNCHANGED login

ApiGetUserActionsInfo ==
    \E u \in Usernames :
        ApiCall(get_user_actions_info(Session, u),
                Op("get_user_actions_info", 0, FALSE), Caps)
        /\ login' = u

ApiCommit == ApiCall(commit(Session), Op("commit", 0, FALSE), Caps) /\ UNCHANGED login

ApiDisconnect ==
    /\ pc = "api"
    /\ \E o \in disconnect(Session) :
        IF o.exc = "none" THEN Die(o, Op("disconnect", 0, FALSE))
        ELSE Apply(o, Op("disconnect", 0, FALSE), "api_ret", Caps)
             /\ UNCHANGED <<login, actions_count, iter, stdout>>
    /\ UNCHANGED is_faker

Next ==
    \/ MainStart \/ MainReportComments \/ MainReportActions
    \/ MainCreateTables \/ MainFillUsers \/ MainFillBlogs \/ MainFillPosts
    \/ MainFillComments \/ MainActions \/ MainLogin \/ MainLogout
    \/ MainCommit \/ MainDisconnect \/ Kill
    \/ ApiConnect \/ ApiReturn \/ ApiCreateTables \/ ApiFillUsers \/ ApiFillBlogs
    \/ ApiFillPosts \/ ApiFillComments \/ ApiFillLogs
    \/ ApiGetUserCommentsInfo \/ ApiGetUserActionsInfo \/ ApiCommit \/ ApiDisconnect

Spec == Init /\ [][Next]_vars

(* a client that fills the authors tables and reads the comments report on
   one connection to files that hold the schema already, with room for a
   second comment *)
\* the files as a run of main.py with --fill --create-tables alone leaves them
SchemaStore == RunScript(EmptyStore, SchemaScript, 1).db

InitContent ==
    /\ disk = SchemaStore /\ db = SchemaStore /\ inTx = FALSE
    /\ pc = "off" /\ is_faker \in BOOLEAN /\ login = <<>>
    /\ actions_count = 0 /\ iter = 0
    /\ stdout = "" /\ lastOp = Op("none", 0, FALSE) /\ raised = "none" /\ ret = <<>>

DeepFillUsers == FillUsers(DeepCaps)
DeepFillBlogs == FillBlogs(DeepCaps)
DeepFillPosts == FillPosts(DeepCaps)
DeepFillComments == FillComments(DeepCaps)
DeepGetUserCommentsInfo == GetUserCommentsInfo(DeepCaps)

NextContent ==
    \/ ApiConnect \/ ApiReturn \/ DeepFillUsers \/ DeepFillBlogs
    \/ DeepFillPosts \/ DeepFillComments \/ DeepGetUserCommentsInfo

SpecContent == InitContent /\ [][NextContent]_vars

(* main.py alone, with room in logs for an actions loop of MaxCount
   iterations over MaxUsers users *)
LoopCaps == [users |-> MaxUsers, blog |-> MaxBlogs, post |-> MaxPosts,
             comment |-> MaxComments, logs |-> LoopLogs]

LoopLogin == Login(LoopCaps)
LoopLogout == Logout(LoopCaps)

NextActions ==
    \/ MainStart \/ MainReportComments \/ MainReportActions
    \/ MainCreateTables \/ MainFillUsers \/ MainFillBlogs \/ MainFillPosts
    \/ MainFillComments \/ MainActions \/ LoopLogin \/ LoopLogout
    \/ MainCommit \/ MainDisconnect

SpecActions == Init /\ [][NextActions]_vars

(* ============================== claims ================================ *)
AllTables == {"users", "blog", "post", "comment", "event_type", "space_type", "logs"}

\* the rows a step appended to table t
NewRows(old, new, t) == SubSeq(new[t], Len(old[t]) + 1, Len(new[t]))

\* a step left the rows table t had as they were
KeepsRows(old, new, t) ==
    Len(new[t]) >= Len(old[t]) /\ SubSeq(new[t], 1, Len(old[t])) = old[t]

\* e is l in lower case with "_" for each space, then "@example.com"
EmailOfLogin(e, l) ==
    /\ Len(e) = Len(l) + 12
    /\ \A i \in 1..Len(l) :
        /\ l[i] = " " => e[i] = "_"
        /\ l[i] # " " => /\ e[i] \notin {UpperCase[k] : k \in 1..26}
                         /\ (e[i] = l[i] \/
                             \E k \in 1..26 : l[i] = UpperCase[k] /\ e[i] = LowerCase[k])
    /\ SubSeq(e, Len(l) + 1, Len(e)) = <<"@","e","x","a","m","p","l","e",".","c","o","m">>

\* C1 (as claimed): for every N >= 0, N = 0 included, a call fill_users(N) on
\* a connection whose schema exists returns without error and appends
\* exactly N rows to users, each with a non-empty login and the e-mail
\* derived from it, and changes no row that was there.
C1_FillUsersAddsN ==
    [][ (lastOp'.op = "fill_users" /\ AllTables \subseteq db.tables)
        => /\ raised' = "none"
           /\ KeepsRows(db, db', "users")
           /\ Len(db'.users) = Len(db.users) + lastOp'.count
           /\ \A i \in Len(db.users) + 1 .. Len(db'.users) :
                /\ db'.users[i].login # <<>>
                /\ EmailOfLogin(db'.users[i].email, db'.users[i].login) ]_vars

ChildFills == {"fill_blogs", "fill_posts", "fill_comments", "fill_logs_login_logout"}

\* a table the child fill op samples its ids from is empty in d
ParentEmpty(d, op) ==
    \/ d.users = <<>>
    \/ op = "fill_posts" /\ d.blog = <<>>
    \/ op = "fill_comments" /\ d.post = <<>>

\* C2 (as claimed): a child-stage fill called while a table it samples ids
\* from is empty raises no unhandled fault (it inserts nothing, or reports
\* that there are no parent rows) and leaves every table as it was.
C2_ChildFillGraceful ==
    [][ (lastOp'.op \in ChildFills /\ AllTables \subseteq db.tables
            /\ ParentEmpty(db, lastOp'.op))
        => /\ raised' \notin {"IndexError", "OperationalError"}
           /\ db' = db /\ disk' = disk ]_vars

\* C3: every foreign key a successful fill_blogs, fill_posts or
\* fill_comments writes is the id of a row the referenced table held when
\* the call started, and the call changes no row that was there.
C3_ForeignKeysExist ==
    [][ (lastOp'.op \in {"fill_blogs", "fill_posts", "fill_comments"} /\ raised' = "none")
        => /\ \A t \in {"users", "blog", "post", "comment"} : KeepsRows(db, db', t)
           /\ \A i \in Len(db.blog) + 1 .. Len(db'.blog) :
                db'.blog[i].owner_id \in 1..Len(db.users)
           /\ \A i \in Len(db.post) + 1 .. Len(db'.post) :
                /\ db'.post[i].author_id \in 1..Len(db.users)
                /\ db'.post[i].blog_id \in 1..Len(db.blog)
           /\ \A i \in Len(db.comment) + 1 .. Len(db'.comment) :
                /\ db'.comment[i].author_id \in 1..Len(db.users)
                /\ db'.comment[i].post_id \in 1..Len(db.post) ]_vars

\* C3 witness: fill_comments has written a comment (so fill_users,
\* fill_blogs and fill_posts have each written rows before it)
C3_Witness ==
    /\ lastOp.op = "fill_comments" /\ raised = "none"
    /\ Len(db.comment) >= 1 /\ Len(db.users) = 2

\* the statements of main.py's fill branch, up to and including commit()
FillPcs == {"create_tables", "fill_users", "fill_blogs", "fill_posts",
            "fill_comments", "actions", "login", "logout", "commit"}

\* the rows of the tables the fill_* methods write
DataRows(d) == <<d.users, d.blog, d.post, d.comment, d.logs>>

\* C4 (as claimed): nothing a fill-mode invocation does before commit()
\* (schema creation, seed rows, rows of the fill_* calls) reaches the
\* stored databases: they change only by the commit() at its end.
C4_OnlyCommitStores ==
    [][ (pc \in FillPcs /\ lastOp'.op # "commit") => disk' = disk ]_vars

\* C4 (amended): no row a fill_* call of a fill-mode invocation inserted
\* reaches the stored databases unless commit() is reached: every step of
\* the invocation but commit(), the failing or killed one included, leaves
\* the stored rows of users, blog, post, comment and logs as they were, and
\* when the invocation ends without commit() the connection's rows are gone.
\* (create_tables() stores the tables and the seed rows at once.)
C4_FillRowsNeedCommit ==
    [][ (pc \in FillPcs /\ lastOp'.op # "commit")
        => /\ DataRows(disk') = DataRows(disk)
           /\ (lastOp'.op # "create_tables" => disk' = disk)
           /\ (pc' = "off" => db' = disk) ]_vars

\* C4 witness: main.py is past fill_users with rows the files do not hold
C4_Witness ==
    /\ pc \in FillPcs /\ inTx
    /\ Len(db.users) > Len(disk.users)

\* the comments (ids, in order) whose author has login l
CommentsOfLogin(d, l) ==
    SelectSeq([i \in 1..Len(d.comment) |-> i],
              LAMBDA c : d.users[d.comment[c].author_id].login = l)

\* the number of comments on post p
CommentsOnPost(d, p) == Cardinality({k \in 1..Len(d.comment) : d.comment[k].post_id = p})

\* the i-th row of the comments report is the row of comment c
IsRowOfComment(d, row, c, l) ==
    /\ row[1] = l
    /\ row[4] = CommentsOnPost(d, d.comment[c].post_id)
    /\ row[4] >= 1

\* the comments report was asked for the login of a user
AskedCommentsOfAUser ==
    /\ lastOp.op = "get_user_comments_info" /\ pc # "off"
    /\ \E u \in 1..Len(db.users) : db.users[u].login = login

\* C5 (as claimed): get_user_comments_info(login of a user) returns one row
\* per comment that user wrote and none for the comments of any other user,
\* each with the number of all comments on its post.
C5_OneRowPerCommentOfUser ==
    AskedCommentsOfAUser
    => /\ raised = "none"
       /\ \A u \in 1..Len(db.users) :
            db.users[u].login = login
            => LET mine == SelectSeq([i \in 1..Len(db.comment) |-> i],
                                     LAMBDA c : db.comment[c].author_id = u)
               IN /\ Len(ret) = Len(mine)
                  /\ \A i \in 1..Len(ret) : IsRowOfComment(db, ret[i], mine[i], login)

\* C5 (amended): get_user_comments_info(login of a user) returns one row per
\* comment written by any user whose login is that login (two rows for two
\* comments on one post; the comments of another user of the same login
\* included, none of a user of another login), each with the number of all
\* comments on its post, whoever wrote them.
C5_OneRowPerCommentOfLogin ==
    AskedCommentsOfAUser
    => /\ raised = "none"
       /\ LET theirs == CommentsOfLogin(db, login)
          IN /\ Len(ret) = Len(theirs)
             /\ \A i \in 1..Len(ret) : IsRowOfComment(db, ret[i], theirs[i], login)

\* C5 witness: a user who wrote two comments on one post, and who is the
\* only user of that login, has asked for the report
C5_Witness ==
    /\ AskedCommentsOfAUser /\ Len(ret) = 2
    /\ Len(db.users) = 2 /\ db.users[1].login # db.users[2].login
    /\ db.comment[1].post_id = db.comment[2].post_id
    /\ db.comment[1].author_id = db.comment[2].author_id

RECURSIVE SumLoginsLogouts(_)
\* Logins + Logouts summed over the rows of an actions report
SumLoginsLogouts(rows) ==
    IF rows = <<>> THEN 0
    ELSE Head(rows)[2] + Head(rows)[3] + SumLoginsLogouts(Tail(rows))

\* the log rows of user u whose event type is login (1) or logout (5)
LoginLogoutRows(d, u) ==
    {k \in 1..Len(d.logs) : d.logs[k].user_id = u /\ d.logs[k].event_type_id \in {1, 5}}

\* the dates user u has log rows on
LogDates(d, u) == {d.logs[k].datetime : k \in {j \in 1..Len(d.logs) : d.logs[j].user_id = u}}

\* the actions report was asked for the login of a user
AskedActionsOfAUser ==
    /\ lastOp.op = "get_user_actions_info" /\ pc # "off"
    /\ \E u \in 1..Len(db.users) : db.users[u].login = login

\* rows is an actions report of user u: Logins + Logouts over its rows is the
\* number of u's login and logout log rows, and it has one row for each date
\* u has log rows on and no other
IsActionsReportOf(d, rows, u) ==
    /\ SumLoginsLogouts(rows) = Cardinality(LoginLogoutRows(d, u))
    /\ {rows[i][1] : i \in 1..Len(rows)} = LogDates(d, u)
    /\ Len(rows) = Cardinality(LogDates(d, u))

\* C6 (as claimed): for every user, Logins + Logouts summed over the rows of
\* get_user_actions_info(login of that user) is the number of login and
\* logout log rows with that user's id, and a date on which the user has no
\* log row gives no row.
C6_SumsForEveryUser ==
    AskedActionsOfAUser
    => /\ raised = "none"
       /\ \A u \in 1..Len(db.users) :
            db.users[u].login = login => IsActionsReportOf(db, ret, u)

\* C6 (amended): Logins + Logouts summed over the rows of
\* get_user_actions_info(login) is the number of login and logout log rows
\* of the first user (lowest id) whose login is that login, and a date on
\* which that user has no log row gives no row; a later user of the same
\* login gets the first one's report.
C6_SumsForFirstUser ==
    AskedActionsOfAUser
    => /\ raised = "none"
       /\ LET first == CHOOSE u \in 1..Len(db.users) :
                          /\ db.users[u].login = login
                          /\ \A v \in 1..(u - 1) : db.users[v].login # login
          IN IsActionsReportOf(db, ret, first)

\* C6 witness: the report of a user with a login row and a logout row on
\* two dates
C6_Witness ==
    /\ AskedActionsOfAUser /\ Len(ret) = 2
    /\ SumLoginsLogouts(ret) = 2
    /\ ret[1][2] = 1 /\ ret[2][3] = 1

\* C7: once create_tables() has run, all seven tables exist and the lookup
\* tables hold exactly event_type 1:login, 2:comment, 3:create_post,
\* 4:delete_post, 5:logout and space_type 1:global, 2:blog, 3:post, in the
\* files and on the connection, whatever runs later; the ids the fills
\* write (login = 1, logout = 5, global = 1 among them) are ids of these rows.
C7_LookupTablesFixed ==
    \A d \in {disk, db} :
        IF d.tables = {}
        THEN d.event_type = <<>> /\ d.space_type = <<>> /\ d.logs = <<>>
        ELSE /\ d.tables = AllTables
             /\ d.event_type = <<"login", "comment", "create_post", "delete_post", "logout">>
             /\ d.space_type = <<"global", "blog", "post">>
             /\ \A k \in 1..Len(d.logs) :
                  /\ d.logs[k].event_type_id \in 1..Len(d.event_type)
                  /\ d.logs[k].space_type_id \in 1..Len(d.space_type)
                  /\ d.logs[k].space_type_id = 1
                       => d.event_type[d.logs[k].event_type_id] \in {"login", "logout"}

\* C7 witness: fill_logs_login_logout has written log rows after create_tables
C7_Witness ==
    /\ lastOp.op = "fill_logs_login_logout" /\ raised = "none"
    /\ Len(db.logs) > 0 /\ Len(db.event_type) = 5

\* C8: create_tables() on a store that holds the tables already raises
\* OperationalError and leaves the tables and the rows of every table as
\* they were (no statement of the script applies); main.py catches it,
\* prints "Tables already exist" and goes on to the fills, with the files
\* unchanged.
C8_SecondCreateHarmless ==
    [][ (lastOp'.op = "create_tables" /\ AllTables \subseteq db.tables)
        => /\ raised' = "OperationalError"
           /\ db' = db
           /\ (pc = "create_tables"
                 => stdout' = "Tables already exist" /\ pc' = "fill_users" /\ disk' = disk) ]_vars

\* C8 witness: main.py has been told the tables exist, on files with users
C8_Witness ==
    /\ pc = "fill_users" /\ lastOp.op = "create_tables"
    /\ stdout = "Tables already exist" /\ Len(disk.users) > 0

\* C9 (as claimed): with the schema created, get_user_comments_info(login)
\* and get_user_actions_info(login) return an empty sequence, without an
\* error, for every login that no users row has.
C9_UnknownLoginEmpty ==
    (/\ lastOp.op \in {"get_user_comments_info", "get_user_actions_info"}
     /\ pc # "off" /\ AllTables \subseteq db.tables
     /\ \A u \in 1..Len(db.users) : db.users[u].login # login)
    => raised = "none" /\ ret = <<>>

\* what C10 says of a call fill_posts(n) made with a user and a blog, the
\* companion log rows having space type space: n new posts; n to 2n new log
\* rows, each of event type create_post (3) or delete_post (4) and of that
\* space type; for every user as many create_post rows as new posts of that
\* author, and no more delete_post rows than create_post rows
PostsWithLogs(space) ==
    (lastOp'.op = "fill_posts" /\ AllTables \subseteq db.tables
        /\ db.users # <<>> /\ db.blog # <<>>)
    => LET n == lastOp'.count
           posts == NewRows(db, db', "post")
           logs == NewRows(db, db', "logs")
           Created(u) == {k \in 1..Len(logs) :
                            logs[k].user_id = u /\ logs[k].event_type_id = 3}
           Deleted(u) == {k \in 1..Len(logs) :
                            logs[k].user_id = u /\ logs[k].event_type_id = 4}
           Authored(u) == {i \in 1..Len(posts) : posts[i].author_id = u}
       IN /\ KeepsRows(db, db', "post") /\ KeepsRows(db, db', "logs")
          /\ Len(posts) = n
          /\ n <= Len(logs) /\ Len(logs) <= 2 * n
          /\ \A k \in 1..Len(logs) :
                logs[k].event_type_id \in {3, 4} /\ logs[k].space_type_id = space
          /\ \A u \in 1..Len(db.users) :
                /\ Cardinality(Created(u)) = Cardinality(Authored(u))
                /\ Cardinality(Deleted(u)) <= Cardinality(Created(u))

\* C10 (as claimed): fill_posts(n) with a user and a blog inserts n posts
\* and, for each, one log row create_post of space type post (3) for the
\* post's author, plus at most one log row delete_post of space type post
\* for the same user: n to 2n log rows.
C10_PostLogsInPostSpace == [][PostsWithLogs(3)]_vars

\* C10 (amended): the same, the companion log rows having space type
\* blog (2), not post.
C10_PostLogsInBlogSpace == [][PostsWithLogs(2)]_vars

\* C10 witness: fill_posts(1) has written a post, its create_post row and a
\* delete_post row
C10_Witness ==
    /\ lastOp.op = "fill_posts" /\ lastOp.count = 1 /\ raised = "none"
    /\ Len(db.post) = 1 /\ Len(db.logs) = 2
    /\ db.logs[1].event_type_id = 3 /\ db.logs[2].event_type_id = 4

\* the log rows of store d that user u has of event type e in the global space
GlobalRows(d, u, e) ==
    {k \in 1..Len(d.logs) : /\ d.logs[k].user_id = u
                            /\ d.logs[k].event_type_id = e
                            /\ d.logs[k].space_type_id = 1}

\* what C11 says of one call: fill_logs_login_logout(is_login) that returns
\* appends to logs one row for each user there is, in the global space and
\* of event type login (1) or logout (5) as is_login says, and changes
\* nothing else; it raises only when there is no user (or no table), and
\* then no row is stored
OneLogRowPerUser ==
    lastOp'.op = "fill_logs_login_logout"
    => IF raised' = "none"
       THEN LET new == NewRows(db, db', "logs")
            IN /\ KeepsRows(db, db', "logs")
               /\ Len(new) = Len(db.users)
               /\ \A u \in 1..Len(db.users) :
                    /\ Cardinality({k \in 1..Len(new) : new[k].user_id = u}) = 1
                    /\ new[u].space_type_id = 1
                    /\ new[u].event_type_id = (IF lastOp'.is_login THEN 1 ELSE 5)
               /\ \A t \in AllTables \ {"logs"} : db'[t] = db[t]
               /\ db'.tables = db.tables /\ disk' = disk
       ELSE /\ db.users = <<>>
            /\ disk' = disk /\ db' = disk

\* what C11 says of the loop: with i iterations of the actions loop done
\* (and the login half of the next, at "logout"), every user has i more
\* login rows and i more logout rows than the files hold, and the loop has
\* added 2 * i * (number of users) rows in all; at "commit" i is
\* args.actions_count
LoopAddsPerUser ==
    pc \in {"login", "logout", "commit"}
    => LET done == actions_count - iter
           logins == IF pc = "logout" THEN done + 1 ELSE done
           Added(e) == {k \in 1..Len(db.logs) :
                          db.logs[k].event_type_id = e /\ db.logs[k].space_type_id = 1}
           Stored(e) == {k \in 1..Len(disk.logs) :
                          disk.logs[k].event_type_id = e /\ disk.logs[k].space_type_id = 1}
       IN /\ (pc = "commit" => iter = 0)
          /\ \A u \in 1..Len(db.users) :
               /\ Cardinality(GlobalRows(db, u, 1))
                    = Cardinality(GlobalRows(disk, u, 1)) + logins
               /\ Cardinality(GlobalRows(db, u, 5))
                    = Cardinality(GlobalRows(disk, u, 5)) + done
          /\ Cardinality(Added(1)) + Cardinality(Added(5))
               = Cardinality(Stored(1)) + Cardinality(Stored(5))
                 + (logins + done) * Len(db.users)

\* C11: each call of fill_logs_login_logout(is_login) inserts exactly one
\* log row per existing user (login if is_login, else logout; space global)
\* and nothing else, so the actions loop of main.py with count n adds n
\* login rows and n logout rows for every user: 2 * n * (number of users)
\* rows, not 2 * n.
C11_LoopLogsPerUser == [][OneLogRowPerUser /\ LoopAddsPerUser']_vars

\* C11 witness: a loop of one iteration over two users is done: four rows,
\* not two
C11_Witness ==
    /\ pc = "commit" /\ lastOp.op = "fill_logs_login_logout"
    /\ actions_count = 1 /\ Len(db.users) = 2
    /\ Len(db.logs) = Len(disk.logs) + 4

\* a loop of two iterations over one user is done
C11_TwoIterations ==
    /\ pc = "commit" /\ lastOp.op = "fill_logs_login_logout"
    /\ actions_count = 2 /\ Len(db.users) = 1
    /\ Len(db.logs) = Len(disk.logs) + 4

\* the log rows of store d that user u has on date day
RowsOnDate(d, u, day) ==
    {k \in 1..Len(d.logs) : d.logs[k].user_id = u /\ d.logs[k].datetime = day}

\* C12: in the files and on the connection, after any fills, a log row has
\* space type global (1) exactly when its event type is login (1) or
\* logout (5); so in every row get_user_actions_info returns for the login
\* of a user, Logins, Logouts and Actions count the login rows, the logout
\* rows and the other rows the reported user has on that date, and add up
\* to the number of that user's log rows on that date.
C12_GlobalIffLoginLogout ==
    /\ \A d \in {disk, db} : \A k \in 1..Len(d.logs) :
          d.logs[k].space_type_id = 1 <=> d.logs[k].event_type_id \in {1, 5}
    /\ (AskedActionsOfAUser /\ raised = "none")
       => LET u == CHOOSE v \in 1..Len(db.users) :
                      /\ db.users[v].login = login
                      /\ \A w \in 1..(v - 1) : db.users[w].login # login
              Of(day, events) ==
                  Cardinality({k \in RowsOnDate(db, u, day) :
                                  db.logs[k].event_type_id \in events})
          IN \A i \in 1..Len(ret) :
                /\ ret[i][2] = Of(ret[i][1], {1})
                /\ ret[i][3] = Of(ret[i][1], {5})
                /\ ret[i][4] = Of(ret[i][1], {2, 3, 4})
                /\ ret[i][2] + ret[i][3] + ret[i][4]
                     = Cardinality(RowsOnDate(db, u, ret[i][1]))

\* C12 witness: the report of a user with a login row and a create_post row
\* on one date
C12_Witness ==
    /\ AskedActionsOfAUser /\ raised = "none"
    /\ \E i \in 1..Len(ret) : ret[i][2] = 1 /\ ret[i][3] = 0 /\ ret[i][4] = 1

====
